---- MODULE Spec2Model ----
(***************************************************************************)
(* Model of the Uruguay News backend: the FastAPI handlers of              *)
(* backend/main.py (GET /health, GET /, POST /analyze, POST /batch-analyze)*)
(* and the service classes and factory functions of                        *)
(* backend/src/uruguay_news/services.py.                                   *)
(*                                                                         *)
(* health_check is an async function without an await: on the event loop   *)
(* it runs from its first line to its return without interleaving, so one  *)
(* action models the whole handler.  The dependencies (Firestore, Redis)   *)
(* are an environment that goes up and down between requests; a failure    *)
(* inside a service constructor or loader is an input of the call.         *)
(***************************************************************************)
EXTENDS Naturals, Sequences, FiniteSets

VARIABLES
    firestoreUp,    \* environment: the Firestore query of main.py:101 succeeds
    redisUp,        \* environment: redis_client.ping() of main.py:112 succeeds
    redis_client,   \* main.py:44-52, "None" or "Client", fixed at import time
    instances,      \* service objects held by callers of the factory functions
    factory,        \* per kind of service: what the factory function has done so far
    last            \* the last HTTP exchange: endpoint, status code, body, trace

vars == <<firestoreUp, redisUp, redis_client, instances, factory, last>>

\* Bounds of the model.
MaxHeld == 1
MaxCalls == 2

Kinds == {"sentiment", "bias"}

\* What may go wrong inside one factory call: nothing, the constructor raises,
\* or the try block of load_model / load_prompts raises (caught there).
Faults == {"none", "init_raises", "load_fails"}

\* ------------------------------------------------------------------ services

\* SentimentAnalyzer.__init__: model_loaded = False
SentimentAnalyzer == [kind |-> "sentiment", loaded |-> FALSE]

\* BiasDetector.__init__: prompts_loaded = False
BiasDetector == [kind |-> "bias", loaded |-> FALSE]

model_loaded(self) == self.loaded

prompts_loaded(self) == self.loaded

\* Faulty variant of load_model: the except branch resets the flag.
load_model_resets(self, fails) ==
    IF fails
    THEN [self |-> [self EXCEPT !.loaded = FALSE], ret |-> FALSE]
    ELSE [self |-> [self EXCEPT !.loaded = TRUE], ret |-> TRUE]

\* Faulty variant of load_model: the assignment of the flag is missing.
load_model_forgets(self, fails) ==
    IF fails
    THEN [self |-> self, ret |-> FALSE]
    ELSE [self |-> self, ret |-> TRUE]

\* SentimentAnalyzer.load_model: sets model_loaded and returns it; when the try
\* block raises, the flag is left as it was and False is returned.
load_model(self, fails) ==
    IF fails
    THEN [self |-> self, ret |-> FALSE]
    ELSE [self |-> [self EXCEPT !.loaded = TRUE], ret |-> TRUE]

\* BiasDetector.load_prompts: the same shape as load_model.
load_prompts(self, fails) ==
    IF fails
    THEN [self |-> self, ret |-> FALSE]
    ELSE [self |-> [self EXCEPT !.loaded = TRUE], ret |-> TRUE]

\* SentimentAnalyzer.analyze_sentiment: a constant result, no assignment to self.
analyze_sentiment(self) ==
    [self |-> self,
     ret |-> [sentiment |-> "neutral", confidence |-> 0, processing_time |-> 0]]

\* BiasDetector.detect_bias: a constant result, no assignment to self.
detect_bias(self) ==
    [self |-> self,
     ret |-> [bias_score |-> 0, bias_type |-> "none", confidence |-> 0,
              analysis |-> "No bias detected", processing_time |-> 0]]

\* ------------------------------------------------------------------ factory

\* Bookkeeping of one factory call that constructed an object and ran its
\* loader once: the object is the constructed-th of its kind.
Constructed(f, kind, ok) ==
    [f EXCEPT ![kind] =
        [constructed |-> @.constructed + 1,
         inits |-> @.inits + 1,
         firstFailed |-> IF @.firstFailed = 0 /\ ~ok
                         THEN @.constructed + 1 ELSE @.firstFailed]]

\* create_sentiment_analyzer: a new SentimentAnalyzer, load_model() on it, return it.
create_sentiment_analyzer(f, fault) ==
    IF fault = "init_raises"
    THEN [raised |-> TRUE, inst |-> SentimentAnalyzer, factory |-> f]
    ELSE LET r == load_model(SentimentAnalyzer, fault = "load_fails")
         IN  [raised |-> FALSE, inst |-> r.self,
              factory |-> Constructed(f, "sentiment", r.ret)]

\* create_bias_detector: a new BiasDetector, load_prompts() on it, return it.
create_bias_detector(f, fault) ==
    IF fault = "init_raises"
    THEN [raised |-> TRUE, inst |-> BiasDetector, factory |-> f]
    ELSE LET r == load_prompts(BiasDetector, fault = "load_fails")
         IN  [raised |-> FALSE, inst |-> r.self,
              factory |-> Constructed(f, "bias", r.ret)]

\* create_content_extractor: a new ContentExtractor (no state of its own).
create_content_extractor(fault) ==
    [raised |-> fault = "init_raises", inst |-> [kind |-> "extractor"]]

\* ------------------------------------------------------------------ health_check

\* One record of the module logger: level, the fixed text, the error it quotes.
Line(level, text, e) == [level |-> level, text |-> text, e |-> e]

\* The text carried by the exception a dependency raises.
ErrorOf(dep) ==
    CASE dep = "firestore" -> "firestore unavailable"
      [] dep = "redis" -> "redis connection refused"
      [] OTHER -> "service construction failed"

\* db.collection("health").limit(1).get(): returns, or raises when Firestore is down.
FirestoreQuery(up) == [raised |-> ~up, e |-> IF up THEN "" ELSE ErrorOf("firestore")]

\* redis_client.ping(): returns, or raises when Redis is down.
RedisPing(up) == [raised |-> ~up, e |-> IF up THEN "" ELSE ErrorOf("redis")]

\* The locals of health_check after main.py:93-96.  ran lists the checks whose
\* try block was entered; propagating is set when an exception leaves a check.
HealthLocals ==
    [firestore_connected |-> TRUE, redis_connected |-> TRUE,
     ai_models_loaded |-> TRUE, overall_status |-> "healthy",
     ran |-> <<>>, log |-> <<>>, propagating |-> FALSE]

\* Faulty variant of CheckFirestore: the except branch forgets overall_status.
CheckFirestoreKeepsStatus(h, q) ==
    IF h.propagating THEN h
    ELSE IF ~q.raised
    THEN [h EXCEPT !.ran = Append(@, "firestore"),
                   !.log = Append(@, Line("INFO", "Firestore health check passed", ""))]
    ELSE [h EXCEPT !.ran = Append(@, "firestore"),
                   !.firestore_connected = FALSE,
                   !.log = Append(@, Line("ERROR", "Firestore health check failed: ", q.e))]

\* main.py:98-106, the Firestore check.
CheckFirestore(h, q) ==
    IF h.propagating THEN h
    ELSE IF ~q.raised
    THEN [h EXCEPT !.ran = Append(@, "firestore"),
                   !.log = Append(@, Line("INFO", "Firestore health check passed", ""))]
    ELSE [h EXCEPT !.ran = Append(@, "firestore"),
                   !.firestore_connected = FALSE,
                   !.overall_status = "degraded",
                   !.log = Append(@, Line("ERROR", "Firestore health check failed: ", q.e))]

\* Faulty variant of CheckRedis: no except clause, the exception of ping() leaves the check.
CheckRedisNoExcept(h, client, p) ==
    IF h.propagating THEN h
    ELSE IF client = "None"
    THEN [h EXCEPT !.ran = Append(@, "redis"),
                   !.redis_connected = FALSE,
                   !.log = Append(@, Line("INFO", "Redis health check: not configured", ""))]
    ELSE IF ~p.raised
    THEN [h EXCEPT !.ran = Append(@, "redis"),
                   !.redis_connected = TRUE,
                   !.log = Append(@, Line("INFO", "Redis health check passed", ""))]
    ELSE [h EXCEPT !.ran = Append(@, "redis"), !.propagating = TRUE]

\* Faulty variant of CheckRedis: a client that is not configured degrades the status.
CheckRedisNoneDegrades(h, client, p) ==
    IF h.propagating THEN h
    ELSE IF client = "None"
    THEN [h EXCEPT !.ran = Append(@, "redis"),
                   !.redis_connected = FALSE,
                   !.overall_status = "degraded",
                   !.log = Append(@, Line("INFO", "Redis health check: not configured", ""))]
    ELSE IF ~p.raised
    THEN [h EXCEPT !.ran = Append(@, "redis"),
                   !.redis_connected = TRUE,
                   !.log = Append(@, Line("INFO", "Redis health check passed", ""))]
    ELSE [h EXCEPT !.ran = Append(@, "redis"),
                   !.redis_connected = FALSE,
                   !.overall_status = "degraded",
                   !.log = Append(@, Line("ERROR", "Redis health check failed: ", p.e))]

\* main.py:108-122, the Redis check: ping when a client exists, "not configured"
\* (flag False, status untouched) when redis_client is None.
CheckRedis(h, client, p) ==
    IF h.propagating THEN h
    ELSE IF client = "None"
    THEN [h EXCEPT !.ran = Append(@, "redis"),
                   !.redis_connected = FALSE,
                   !.log = Append(@, Line("INFO", "Redis health check: not configured", ""))]
    ELSE IF ~p.raised
    THEN [h EXCEPT !.ran = Append(@, "redis"),
                   !.redis_connected = TRUE,
                   !.log = Append(@, Line("INFO", "Redis health check passed", ""))]
    ELSE [h EXCEPT !.ran = Append(@, "redis"),
                   !.redis_connected = FALSE,
                   !.overall_status = "degraded",
                   !.log = Append(@, Line("ERROR", "Redis health check failed: ", p.e))]

\* Faulty variant of AIModelsBody: the check reads state an earlier call left
\* behind, so the analyzer counts as loaded for the first construction only.
AIModelsBodyRemembers(f, fs, fb, fe) ==
    LET s == create_sentiment_analyzer(f, fs)
        b == create_bias_detector(s.factory, fb)
        x == create_content_extractor(fe)
        Raised(fac) ==
            [raised |-> TRUE, e |-> ErrorOf("ai_models"), sentiment_loaded |-> FALSE,
             bias_loaded |-> FALSE, extractor_available |-> FALSE, factory |-> fac]
    IN  IF s.raised THEN Raised(s.factory)
        ELSE IF b.raised THEN Raised(b.factory)
        ELSE IF x.raised THEN Raised(b.factory)
        ELSE [raised |-> FALSE, e |-> "",
              sentiment_loaded |-> model_loaded(s.inst) /\ f["sentiment"].constructed = 0,
              bias_loaded |-> prompts_loaded(b.inst),
              extractor_available |-> TRUE,
              factory |-> b.factory]

\* main.py:126-136, the body of the AI-models try block: the three factory calls
\* in order, stopping at the first that raises.
AIModelsBody(f, fs, fb, fe) ==
    LET s == create_sentiment_analyzer(f, fs)
        b == create_bias_detector(s.factory, fb)
        x == create_content_extractor(fe)
        Raised(fac) ==
            [raised |-> TRUE, e |-> ErrorOf("ai_models"), sentiment_loaded |-> FALSE,
             bias_loaded |-> FALSE, extractor_available |-> FALSE, factory |-> fac]
    IN  IF s.raised THEN Raised(s.factory)
        ELSE IF b.raised THEN Raised(b.factory)
        ELSE IF x.raised THEN Raised(b.factory)
        ELSE [raised |-> FALSE, e |-> "",
              sentiment_loaded |-> model_loaded(s.inst),
              bias_loaded |-> prompts_loaded(b.inst),
              extractor_available |-> TRUE,
              factory |-> b.factory]

\* Faulty variant of CheckAIModels: the except branch logs but leaves the flag True.
CheckAIModelsKeepsFlag(h, a) ==
    IF h.propagating THEN h
    ELSE IF a.raised
    THEN [h EXCEPT !.ran = Append(@, "ai_models"),
                   !.overall_status = "degraded",
                   !.log = Append(@, Line("ERROR", "AI models health check failed: ", a.e))]
    ELSE LET loaded == a.sentiment_loaded /\ a.bias_loaded /\ a.extractor_available
         IN  IF ~loaded
             THEN [h EXCEPT !.ran = Append(@, "ai_models"),
                            !.ai_models_loaded = FALSE,
                            !.overall_status = "degraded",
                            !.log = Append(@, Line("WARNING", "AI models not fully loaded", ""))]
             ELSE [h EXCEPT !.ran = Append(@, "ai_models"),
                            !.ai_models_loaded = TRUE,
                            !.log = Append(@, Line("INFO", "AI models health check passed", ""))]

\* main.py:124-149, the AI-models check on the outcome of its try body.
CheckAIModels(h, a) ==
    IF h.propagating THEN h
    ELSE IF a.raised
    THEN [h EXCEPT !.ran = Append(@, "ai_models"),
                   !.ai_models_loaded = FALSE,
                   !.overall_status = "degraded",
                   !.log = Append(@, Line("ERROR", "AI models health check failed: ", a.e))]
    ELSE LET loaded == a.sentiment_loaded /\ a.bias_loaded /\ a.extractor_available
         IN  IF ~loaded
             THEN [h EXCEPT !.ran = Append(@, "ai_models"),
                            !.ai_models_loaded = FALSE,
                            !.overall_status = "degraded",
                            !.log = Append(@, Line("WARNING", "AI models not fully loaded", ""))]
             ELSE [h EXCEPT !.ran = Append(@, "ai_models"),
                            !.ai_models_loaded = TRUE,
                            !.log = Append(@, Line("INFO", "AI models health check passed", ""))]

\* main.py:152-160 with models.py:204-217: the HealthCheck model built from the locals.
HealthCheck(h) ==
    [status |-> h.overall_status,
     service |-> "uruguay-news-api",
     version |-> "0.1.0",
     timestamp |-> "utcnow",
     firestore_connected |-> h.firestore_connected,
     redis_connected |-> h.redis_connected,
     ai_models_loaded |-> h.ai_models_loaded]

\* Faulty variant of health_check: the later checks sit inside the Firestore try block,
\* so a Firestore failure skips them.
health_check_nested(f, q, client, p, fs, fb, fe) ==
    LET h1 == CheckFirestore(HealthLocals, q)
        h2 == CheckRedis(h1, client, p)
        a  == AIModelsBody(f, fs, fb, fe)
        h3 == CheckAIModels(h2, a)
    IN  IF q.raised
        THEN [locals |-> h1, factory |-> f]
        ELSE [locals |-> h3, factory |-> IF h2.propagating THEN f ELSE a.factory]

\* main.py:80-160, health_check: the three checks one after the other, each in
\* its own try/except.  The AI-models body runs, and the factories act, unless an
\* exception is already on its way out of the handler.
health_check(f, q, client, p, fs, fb, fe) ==
    LET h1 == CheckFirestore(HealthLocals, q)
        h2 == CheckRedis(h1, client, p)
        a  == AIModelsBody(f, fs, fb, fe)
        h3 == CheckAIModels(h2, a)
    IN  [locals |-> h3, factory |-> IF h2.propagating THEN f ELSE a.factory]

\* ------------------------------------------------------------------ other endpoints

\* main.py:164-172, GET /.
root(f) ==
    [body |-> [message |-> "Uruguay News API", version |-> "0.1.0",
               docs |-> "/docs", health |-> "/health"],
     factory |-> f]

\* Faulty variant of analyze_article: the placeholder builds an analyzer.
analyze_article_builds(f) ==
    [body |-> [message |-> "Analysis endpoint - coming soon"],
     factory |-> create_sentiment_analyzer(f, "none").factory]

\* main.py:176-179, POST /analyze.
analyze_article(f) ==
    [body |-> [message |-> "Analysis endpoint - coming soon"], factory |-> f]

\* main.py:182-185, POST /batch-analyze.
batch_analyze(f) ==
    [body |-> [message |-> "Batch analysis endpoint - coming soon"], factory |-> f]

\* ------------------------------------------------------------------ HTTP exchanges

NoTrace == [ran |-> <<>>, log |-> <<>>]

\* What FastAPI sends for a handler that returned `body`, or that raised.
Exchange(endpoint, raised, body, trace, outcome) ==
    [endpoint |-> endpoint,
     code |-> IF raised THEN 500 ELSE 200,
     body |-> IF raised THEN [detail |-> "Internal Server Error"] ELSE body,
     ran |-> trace.ran, log |-> trace.log, outcome |-> outcome]

\* What each dependency did during one health check, taken from the inputs of
\* the invocation (not from the handler's locals).
FirestoreOutcome(up) == IF up THEN "Healthy" ELSE "Unreachable"

RedisOutcome(client, up) ==
    IF client = "None" THEN "NotConfigured"
    ELSE IF up THEN "Healthy" ELSE "Unreachable"

AIOutcome(fs, fb, fe) ==
    IF "init_raises" \in {fs, fb, fe} THEN "Unreachable"
    ELSE IF "load_fails" \in {fs, fb} THEN "Degraded"
    ELSE "Healthy"

NoOutcome == [firestore |-> "NotRun", redis |-> "NotRun", ai_models |-> "NotRun"]

\* ------------------------------------------------------------------ state machine

Init ==
    /\ firestoreUp \in BOOLEAN
    /\ redisUp \in BOOLEAN
    /\ redis_client \in {"None", "Client"}
    /\ instances = <<>>
    /\ factory = [k \in Kinds |-> [constructed |-> 0, inits |-> 0, firstFailed |-> 0]]
    /\ last = Exchange("none", FALSE, [message |-> ""], NoTrace, NoOutcome)

\* The environment: Firestore goes down or comes back.
FirestoreFlips ==
    /\ firestoreUp' = ~firestoreUp
    /\ UNCHANGED <<redisUp, redis_client, instances, factory, last>>

\* The environment: Redis goes down or comes back.
RedisFlips ==
    /\ redisUp' = ~redisUp
    /\ UNCHANGED <<firestoreUp, redis_client, instances, factory, last>>

\* GET /health
GetHealth ==
    \E fs \in Faults, fb \in Faults, fe \in {"none", "init_raises"} :
        /\ \A k \in Kinds : factory[k].constructed < MaxCalls
        /\ LET r == health_check(factory, FirestoreQuery(firestoreUp), redis_client,
                                 RedisPing(redisUp), fs, fb, fe)
           IN  /\ factory' = r.factory
               /\ last' = Exchange("GET /health", r.locals.propagating,
                                   HealthCheck(r.locals), r.locals,
                                   [firestore |-> FirestoreOutcome(firestoreUp),
                                    redis |-> RedisOutcome(redis_client, redisUp),
                                    ai_models |-> AIOutcome(fs, fb, fe)])
        /\ UNCHANGED <<firestoreUp, redisUp, redis_client, instances>>

\* GET /
GetRoot ==
    /\ factory' = root(factory).factory
    /\ last' = Exchange("GET /", FALSE, root(factory).body, NoTrace, NoOutcome)
    /\ UNCHANGED <<firestoreUp, redisUp, redis_client, instances>>

\* POST /analyze
PostAnalyze ==
    /\ factory' = analyze_article(factory).factory
    /\ last' = Exchange("POST /analyze", FALSE, analyze_article(factory).body,
                        NoTrace, NoOutcome)
    /\ UNCHANGED <<firestoreUp, redisUp, redis_client, instances>>

\* POST /batch-analyze
PostBatchAnalyze ==
    /\ factory' = batch_analyze(factory).factory
    /\ last' = Exchange("POST /batch-analyze", FALSE, batch_analyze(factory).body,
                        NoTrace, NoOutcome)
    /\ UNCHANGED <<firestoreUp, redisUp, redis_client, instances>>

\* A caller of the package calls create_sentiment_analyzer() and keeps the object.
CallCreateSentimentAnalyzer ==
    \E fault \in Faults :
        /\ Len(instances) < MaxHeld
        /\ factory["sentiment"].constructed < MaxCalls
        /\ LET r == create_sentiment_analyzer(factory, fault)
           IN  /\ factory' = r.factory
               /\ instances' = IF r.raised THEN instances ELSE Append(instances, r.inst)
        /\ UNCHANGED <<firestoreUp, redisUp, redis_client, last>>

\* A caller of the package calls create_bias_detector() and keeps the object.
CallCreateBiasDetector ==
    \E fault \in Faults :
        /\ Len(instances) < MaxHeld
        /\ factory["bias"].constructed < MaxCalls
        /\ LET r == create_bias_detector(factory, fault)
           IN  /\ factory' = r.factory
               /\ instances' = IF r.raised THEN instances ELSE Append(instances, r.inst)
        /\ UNCHANGED <<firestoreUp, redisUp, redis_client, last>>

\* A caller calls load_model() again on an analyzer it holds.
CallLoadModel ==
    \E i \in DOMAIN instances, fails \in BOOLEAN :
        /\ instances[i].kind = "sentiment"
        /\ instances' = [instances EXCEPT ![i] = load_model(@, fails).self]
        /\ UNCHANGED <<firestoreUp, redisUp, redis_client, factory, last>>

\* A caller calls load_prompts() again on a detector it holds.
CallLoadPrompts ==
    \E i \in DOMAIN instances, fails \in BOOLEAN :
        /\ instances[i].kind = "bias"
        /\ instances' = [instances EXCEPT ![i] = load_prompts(@, fails).self]
        /\ UNCHANGED <<firestoreUp, redisUp, redis_client, factory, last>>

\* A caller calls analyze_sentiment() on an analyzer it holds.
CallAnalyzeSentiment ==
    \E i \in DOMAIN instances :
        /\ instances[i].kind = "sentiment"
        /\ instances' = [instances EXCEPT ![i] = analyze_sentiment(@).self]
        /\ UNCHANGED <<firestoreUp, redisUp, redis_client, factory, last>>

\* A caller calls detect_bias() on a detector it holds.
CallDetectBias ==
    \E i \in DOMAIN instances :
        /\ instances[i].kind = "bias"
        /\ instances' = [instances EXCEPT ![i] = detect_bias(@).self]
        /\ UNCHANGED <<firestoreUp, redisUp, redis_client, factory, last>>

Next ==
    \/ FirestoreFlips
    \/ RedisFlips
    \/ GetHealth
    \/ GetRoot
    \/ PostAnalyze
    \/ PostBatchAnalyze
    \/ CallCreateSentimentAnalyzer
    \/ CallCreateBiasDetector
    \/ CallLoadModel
    \/ CallLoadPrompts
    \/ CallAnalyzeSentiment
    \/ CallDetectBias

Spec == Init /\ [][Next]_vars

\* ------------------------------------------------------------------ properties

Deps == {"firestore", "redis", "ai_models"}

HealthCheckFields ==
    {"status", "service", "version", "timestamp",
     "firestore_connected", "redis_connected", "ai_models_loaded"}

NonHealthEndpoints == {"GET /", "POST /analyze", "POST /batch-analyze"}

\* The last exchange is a GET /health whose handler returned.
HealthReturned == last.endpoint = "GET /health" /\ last.code = 200

\* The flag the report carries for a dependency.
Flag(dep) ==
    CASE dep = "firestore" -> last.body.firestore_connected
      [] dep = "redis" -> last.body.redis_connected
      [] OTHER -> last.body.ai_models_loaded

\* The field of the report that would carry a dependency's diagnostic detail.
DetailField(dep) ==
    CASE dep = "firestore" -> "firestore_detail"
      [] dep = "redis" -> "redis_detail"
      [] OTHER -> "ai_models_detail"

C2_NeverFails ==
    last.endpoint = "GET /health" =>
        /\ last.code = 200
        /\ DOMAIN last.body = HealthCheckFields
        /\ \A d \in Deps : last.outcome[d] = "Unreachable" => ~Flag(d)

\* C2 witness: all three checks raised and the handler still answered 200.
C2_Witness ==
    /\ HealthReturned
    /\ \A d \in Deps : last.outcome[d] = "Unreachable"
    /\ \A d \in Deps : ~Flag(d)

\* C3 as stated: the body of GET /health has service "uruguay-news-api" and the
\* keys "status", "firestore", "redis" and "ai_models".
C3_TestKeys ==
    HealthReturned =>
        /\ last.body.service = "uruguay-news-api"
        /\ {"status", "firestore", "redis", "ai_models"} \subseteq DOMAIN last.body

\* C4 as stated: however often the factory of one kind is called, one
\* initialization is performed for the kind and one instance is shared by all callers.
C4_SingleInitialization ==
    \A k \in Kinds : factory[k].inits <= 1 /\ factory[k].constructed <= 1

\* C5 as stated: once the initialization of a kind has failed, the failed
\* instance is what every later factory call returns, and no later call
\* initializes again (there is no force_retry in the code to lift this).
C5_FailureCached ==
    \A k \in Kinds :
        factory[k].firstFailed # 0 =>
            /\ factory[k].constructed = factory[k].firstFailed
            /\ factory[k].inits = factory[k].firstFailed

\* C6: an instance whose model_loaded / prompts_loaded is true keeps it true
\* through every step: load_model, load_prompts, analyze_sentiment, detect_bias,
\* health checks and the other endpoints.
C6_ReadyStaysReady ==
    [][\A i \in DOMAIN instances :
           instances[i].loaded =>
               /\ i \in DOMAIN instances'
               /\ instances'[i].kind = instances[i].kind
               /\ instances'[i].loaded]_vars

\* C6 witness: the only analyzer ever built failed to load in the factory and
\* is loaded now, so a later load_model on it succeeded.
C6_Witness ==
    /\ factory["sentiment"].constructed = 1
    /\ factory["sentiment"].firstFailed = 1
    /\ \E i \in DOMAIN instances :
           instances[i].kind = "sentiment" /\ instances[i].loaded

ErrorLogged(d) ==
    \E n \in DOMAIN last.log :
        last.log[n].level = "ERROR" /\ last.log[n].e = ErrorOf(d)

C8_NonHealthEndpoints ==
    [][(last'.endpoint \in NonHealthEndpoints /\ last'.endpoint # last.endpoint) =>
           /\ last'.code = 200
           /\ "message" \in DOMAIN last'.body
           /\ last'.endpoint = "GET /" =>
                  last'.body = [message |-> "Uruguay News API", version |-> "0.1.0",
                                docs |-> "/docs", health |-> "/health"]
           /\ last'.ran = <<>>
           /\ UNCHANGED <<firestoreUp, redisUp, redis_client, instances, factory>>]_vars

\* C8 witness: POST /analyze answered while Firestore and Redis were down and a
\* service had failed to initialize.
C8_Witness ==
    /\ last.endpoint = "POST /analyze"
    /\ last.code = 200
    /\ ~firestoreUp
    /\ ~redisUp
    /\ factory["sentiment"].firstFailed # 0

C10_ChecksIndependent ==
    last.endpoint = "GET /health" =>
        /\ last.code = 200
        /\ Len(last.ran) = 3
        /\ {last.ran[n] : n \in DOMAIN last.ran} = Deps
        /\ {"firestore_connected", "redis_connected", "ai_models_loaded"}
               \subseteq DOMAIN last.body
        /\ \A d \in Deps : Flag(d) = (last.outcome[d] = "Healthy")

\* C10 witness: the first check raised and the two after it ran and passed.
C10_Witness ==
    /\ HealthReturned
    /\ last.outcome.firestore = "Unreachable"
    /\ last.outcome.redis = "Healthy"
    /\ last.outcome.ai_models = "Healthy"
    /\ last.ran = <<"firestore", "redis", "ai_models">>
    /\ last.body.redis_connected
    /\ last.body.ai_models_loaded

\* The AI-models check took its "not fully loaded" branch (main.py:140-142).
WarningLogged ==
    \E n \in DOMAIN last.log : last.log[n].level = "WARNING"

\* C11 as stated: every instance a factory function returned has its loaded
\* flag true, and a health check reports ai_models_loaded false, or takes the
\* Degraded branch, only when constructing or loading a service raised.
C11_AlwaysLoaded ==
    /\ \A i \in DOMAIN instances : instances[i].loaded
    /\ HealthReturned =>
           /\ ~last.body.ai_models_loaded => last.outcome.ai_models # "Healthy"
           /\ WarningLogged => last.outcome.ai_models = "Degraded"

\* C11 amended: an instance a factory function returned has its loaded flag
\* false only when the try block of its loader raised (load_model and
\* load_prompts catch that themselves and the factory returns the instance all
\* the same); a health check reports ai_models_loaded false only when
\* constructing or loading a service raised, and takes the Degraded branch only
\* when a loader raised.
C11_LoadedUnlessLoaderRaised ==
    /\ \A i \in DOMAIN instances :
           ~instances[i].loaded => factory[instances[i].kind].firstFailed # 0
    /\ HealthReturned =>
           /\ ~last.body.ai_models_loaded => last.outcome.ai_models # "Healthy"
           /\ WarningLogged => last.outcome.ai_models = "Degraded"

\* C11 witness: a caller holds an instance whose loader raised in the factory,
\* and a health check in which a loader raised reported Degraded.
C11_Witness ==
    /\ HealthReturned
    /\ last.outcome.ai_models = "Degraded"
    /\ ~last.body.ai_models_loaded
    /\ WarningLogged
    /\ \E i \in DOMAIN instances : ~instances[i].loaded

\* C12: a step that answers GET /health leaves redis_client, the dependencies
\* and every service instance held by a caller as they were, and a health check
\* that meets the same dependency outcomes as the health check answered before
\* it returns the same status code, the same status and the same three flags.
C12_HealthCheckReadsOnly ==
    [][/\ (/\ last'.endpoint = "GET /health"
           /\ \/ last.endpoint # "GET /health"
              \/ last'.outcome # last.outcome
              \/ last'.body # last.body)
          => UNCHANGED <<firestoreUp, redisUp, redis_client, instances>>
       /\ (/\ last'.endpoint = "GET /health"
           /\ last.endpoint = "GET /health"
           /\ last'.outcome = last.outcome)
          => /\ last'.code = last.code
             /\ last'.body.status = last.body.status
             /\ last'.body.firestore_connected = last.body.firestore_connected
             /\ last'.body.redis_connected = last.body.redis_connected
             /\ last'.body.ai_models_loaded = last.body.ai_models_loaded]_vars

\* C12 witness: two health checks have run (four services built and loaded, no
\* caller holding any) and the second found every dependency well.
C12_Witness ==
    /\ HealthReturned
    /\ instances = <<>>
    /\ \A k \in Kinds : factory[k].constructed = 2 /\ factory[k].firstFailed = 0
    /\ \A d \in Deps : last.outcome[d] = "Healthy"
    /\ last.body.status = "healthy"

====
